---- MODULE Spec2Model ----
(***************************************************************************)
(* A model of the data-access layer of the job board API: the User and Job *)
(* repositories (models/user.js, models/job.js) over the relational store  *)
(* with the tables users, jobs and applications.                           *)
(*                                                                         *)
(* Every db.query(...) of the source is one atomic step of the store; a    *)
(* repository method that awaits two round trips (register, apply) is two  *)
(* actions with the caller's position kept in pc, so that calls of         *)
(* different callers interleave between the round trips. A method with one *)
(* round trip is one action, taken by a caller that is between calls.      *)
(*                                                                         *)
(* Usernames are modelled by the integers 1..MaxUser, standing for strings *)
(* in their collation order (1 < 2 as "u1" < "u2"); job ids are the        *)
(* integers the serial column generates.                                   *)
(***************************************************************************)
EXTENDS Integers, Sequences, FiniteSets, Bags, TLC

VARIABLES users, jobs, nextId, applications, pc, local, ev

vars == <<users, jobs, nextId, applications, pc, local, ev>>

store == <<users, jobs, nextId, applications>>

(***************************************************************************)
(* Bounds.                                                                 *)
(***************************************************************************)
MaxUser == 2

MaxJobs == 2

Usernames == 1..MaxUser

JobIds == 1..MaxJobs

\* The callers that run repository calls concurrently.
Procs == {"p1", "p2"}

\* SQL NULL, as the outer joins pad it and as the driver hands it to JS (null).
NULL == -1

(***************************************************************************)
(* Errors (expressError.js) and results.                                   *)
(***************************************************************************)
NotFoundError(msg) == [kind |-> "NotFoundError", status |-> 404, message |-> msg]

BadRequestError(msg) == [kind |-> "BadRequestError", status |-> 400, message |-> msg]

UnauthorizedError(msg) == [kind |-> "UnauthorizedError", status |-> 401, message |-> msg]

ExpressError(msg, status) == [kind |-> "ExpressError", status |-> status, message |-> msg]

\* An error the store raises and no repository code catches: it leaves the
\* method as the driver's error (SQLSTATE in code), not as an ExpressError.
StoreFault(code) == [kind |-> "StoreFault", status |-> 500, message |-> <<code>>]

Ok(val) == [kind |-> "ok", status |-> 200, val |-> val]

NoEvent == [op |-> "none", step |-> "none", args |-> <<>>, res |-> [kind |-> "none", status |-> 0]]

\* The last step taken: the method and its arguments, whether the step is the
\* call of the method ("call") or its continuation after an await ("resume"),
\* and what the caller has received or caught (Pending while the method is
\* still to continue).
Event(op, step, args, res) == [op |-> op, step |-> step, args |-> args, res |-> res]

Pending == [kind |-> "pending", status |-> 0]

Idle == [op |-> "none"]

\* Some caller is between calls, and so free to start one.
SomeIdle == \E p \in Procs : pc[p] = "idle"

(***************************************************************************)
(* The password primitive (bcrypt): a one-way hash and its comparison.     *)
(***************************************************************************)
BcryptHash(password) == <<"bcrypt", password>>

BcryptCompare(password, hashed) == hashed = BcryptHash(password)

(***************************************************************************)
(* The store: tables and the statements the repositories send.             *)
(*   users        set of rows, primary key username                        *)
(*   jobs         set of rows, primary key id (serial, from nextId)        *)
(*   applications bag of rows (username, job_id), composite primary key    *)
(***************************************************************************)
UserRow(f, hashed) ==
    [username |-> f.username, password |-> hashed, first_name |-> f.firstName,
     last_name |-> f.lastName, email |-> f.email, is_admin |-> f.isAdmin]

\* username, first_name AS "firstName", last_name AS "lastName", email,
\* is_admin AS "isAdmin": the projection of a users row, without its password.
UserProjection(r) ==
    [username |-> r.username, firstName |-> r.first_name, lastName |-> r.last_name,
     email |-> r.email, isAdmin |-> r.is_admin]

AppRow(username, jobId) == [username |-> username, job_id |-> jobId]

UserExists(username) == \E r \in users : r.username = username

JobExists(id) == \E j \in jobs : j.id = id

Applied(username, jobId) == BagIn(AppRow(username, jobId), applications)

\* The key constraint of users: INSERT fails when the username is taken.
UsersKeyViolation(row) == UserExists(row.username)

\* A store without the composite key on applications.
ApplicationsKeyViolation_Off(row) == FALSE

\* The composite key of applications: INSERT fails when the pair is there.
ApplicationsKeyViolation(row) == BagIn(row, applications)

\* The foreign keys of applications.
ApplicationsForeignKeyViolation(row) ==
    ~UserExists(row.username) \/ ~JobExists(row.job_id)

(***************************************************************************)
(* User.register: the duplicate pre-check, the hash, then the INSERT.      *)
(***************************************************************************)
\* A pre-check that selects nothing.
RegisterDuplicateCheck_Empty(username) == {}

RegisterDuplicateCheck(username) == {r \in users : r.username = username}

RegisterCheck(p, f) ==
    /\ pc[p] = "idle"
    /\ IF RegisterDuplicateCheck(f.username) # {}
         THEN /\ ev' = Event("register", "call", f,
                             BadRequestError(<<"Duplicate username: ", f.username>>))
              /\ UNCHANGED <<pc, local>>
         ELSE /\ pc' = [pc EXCEPT ![p] = "register_insert"]
              /\ local' = [local EXCEPT ![p] = [op |-> "register", f |-> f]]
              /\ ev' = Event("register", "call", f, Pending)
    /\ UNCHANGED store

RegisterInsert(p) ==
    /\ pc[p] = "register_insert"
    /\ LET f == local[p].f
           row == UserRow(f, BcryptHash(f.password))
       IN IF UsersKeyViolation(row)
            THEN /\ ev' = Event("register", "resume", f, StoreFault("23505"))
                 /\ UNCHANGED users
            ELSE /\ users' = users \cup {row}
                 /\ ev' = Event("register", "resume", f, Ok(UserProjection(row)))
    /\ pc' = [pc EXCEPT ![p] = "idle"]
    /\ local' = [local EXCEPT ![p] = Idle]
    /\ UNCHANGED <<jobs, nextId, applications>>

(***************************************************************************)
(* User.authenticate                                                       *)
(***************************************************************************)
\* An authenticate that reports an absent username as not found.
Authenticate_NotFound(username, password) ==
    LET rows == {r \in users : r.username = username}
    IN IF rows = {} THEN NotFoundError(<<"No user: ", username>>)
       ELSE IF BcryptCompare(password, (CHOOSE r \in rows : TRUE).password)
         THEN Ok(UserProjection(CHOOSE r \in rows : TRUE))
         ELSE UnauthorizedError(<<"Invalid username/password">>)

Authenticate(username, password) ==
    LET rows == {r \in users : r.username = username}
    IN IF rows # {} /\ BcryptCompare(password, (CHOOSE r \in rows : TRUE).password)
         THEN Ok(UserProjection(CHOOSE r \in rows : TRUE))
         ELSE UnauthorizedError(<<"Invalid username/password">>)

UserAuthenticate(username, password) ==
    /\ SomeIdle
    /\ ev' = Event("authenticate", "call",
                   [username |-> username, password |-> password],
                   Authenticate(username, password))
    /\ UNCHANGED <<store, pc, local>>

(***************************************************************************)
(* users u LEFT JOIN applications a ON a.username = u.username             *)
(***************************************************************************)
JoinRow(r, job) ==
    [username |-> r.username, firstName |-> r.first_name, lastName |-> r.last_name,
     email |-> r.email, isAdmin |-> r.is_admin, job |-> job]

\* The join rows of one username, as a bag: one row per application of the
\* user, or one row with a NULL job when the user has none.
LeftJoinBag(username) ==
    LET urows == {r \in users : r.username = username}
        jids  == {a.job_id : a \in {b \in BagToSet(applications) : b.username = username}}
        elems == IF jids = {} THEN {JoinRow(r, NULL) : r \in urows}
                              ELSE {JoinRow(r, j) : r \in urows, j \in jids}
    IN [e \in elems |-> IF e.job = NULL THEN 1
                        ELSE CopiesIn(AppRow(username, e.job), applications)]

\* Every order in which the store may return the rows of a bag.
Orderings(B) ==
    LET n == BagCardinality(B)
    IN {s \in [1..n -> BagToSet(B)] :
          \A e \in BagToSet(B) : Cardinality({i \in 1..n : s[i] = e}) = CopiesIn(e, B)}

\* ORDER BY username: the rows of smaller usernames first, the rows of one
\* username in any order.
RECURSIVE LeftJoinOrdered(_)
LeftJoinOrdered(n) ==
    IF n = 0 THEN {<<>>}
    ELSE {s \o t : s \in LeftJoinOrdered(n - 1), t \in Orderings(LeftJoinBag(n))}

(***************************************************************************)
(* User.findAll: the reduceRight over the joined rows.                     *)
(***************************************************************************)
\* rows[0] != row.username compares an object (or undefined, when rows is
\* empty) with a string: the object converts to "[object Object]", which is
\* no username of the model, so the test is true for every row.
FirstDiffers(rows, row) == TRUE

\* The entry the callback unshifts; its jobs field is commented out.
FindAllEntry(row) ==
    [username |-> row.username, firstName |-> row.firstName, lastName |-> row.lastName,
     email |-> row.email, isAdmin |-> row.isAdmin]

\* One call of the callback; acc is [threw, rows].
FindAllStep(acc, row) ==
    IF acc.threw THEN acc
    ELSE IF FirstDiffers(acc.rows, row)
           THEN [threw |-> FALSE, rows |-> <<FindAllEntry(row)>> \o acc.rows]
           \* rows[0].jobs is undefined: .unshift throws a TypeError
           ELSE [threw |-> TRUE, rows |-> acc.rows]

RECURSIVE ReduceRight(_, _)
ReduceRight(rows, i) ==
    IF i > Len(rows) THEN [threw |-> FALSE, rows |-> <<>>]
    ELSE FindAllStep(ReduceRight(rows, i + 1), rows[i])

FindAll(rows) ==
    LET r == ReduceRight(rows, 1)
    IN IF r.threw THEN [kind |-> "TypeError", status |-> 500, message |-> <<"unshift of undefined">>]
       ELSE Ok(r.rows)

UserFindAll ==
    /\ SomeIdle
    /\ \E rows \in LeftJoinOrdered(MaxUser) :
          ev' = Event("findAll", "call", <<>>, FindAll(rows))
    /\ UNCHANGED <<store, pc, local>>

(***************************************************************************)
(* User.get                                                                *)
(***************************************************************************)
UserGetResult(username, rows) ==
    IF Len(rows) = 0
      THEN NotFoundError(<<"No user: ", username>>)
      \* the jobs field of the returned object is commented out
      ELSE Ok([username |-> rows[1].username, firstName |-> rows[1].firstName,
               lastName |-> rows[1].lastName, email |-> rows[1].email,
               isAdmin |-> rows[1].isAdmin])

UserGet(username) ==
    /\ SomeIdle
    /\ \E rows \in Orderings(LeftJoinBag(username)) :
          ev' = Event("get", "call", [username |-> username],
                      UserGetResult(username, rows))
    /\ UNCHANGED <<store, pc, local>>

(***************************************************************************)
(* User.apply: one joined read, the three checks, then the INSERT.         *)
(***************************************************************************)
\* applications a FULL OUTER JOIN jobs j ON a.job_id = j.id
ApplyJoinJobs ==
    LET apps == BagToSet(applications)
    IN {[au |-> m[1].username, jid |-> m[2].id] :
            m \in {q \in apps \X jobs : q[1].job_id = q[2].id}}
       \cup {[au |-> a.username, jid |-> NULL] :
            a \in {b \in apps : \A j \in jobs : b.job_id # j.id}}
       \cup {[au |-> NULL, jid |-> j.id] :
            j \in {k \in jobs : \A a \in apps : a.job_id # k.id}}

\* ... FULL OUTER JOIN users u ON u.username = a.username, SELECT u.username, j.id
ApplyJoinUsers ==
    LET left == ApplyJoinJobs
    IN {[username |-> m[2].username, id |-> m[1].jid] :
            m \in {q \in left \X users : q[1].au # NULL /\ q[2].username = q[1].au}}
       \cup {[username |-> NULL, id |-> r.jid] :
            r \in {t \in left : t.au = NULL \/ \A u \in users : u.username # t.au}}
       \cup {[username |-> u.username, id |-> NULL] :
            u \in {v \in users : \A r \in left : r.au = NULL \/ r.au # v.username}}

\* The filter with AND in the place of OR.
ApplyWhere_And(row, username, jobId) ==
    /\ (row.username # NULL /\ row.username = username)
    /\ (row.id # NULL /\ row.id = jobId)

\* WHERE u.username = $1 OR j.id = $2 (a comparison with NULL is not true)
ApplyWhere(row, username, jobId) ==
    \/ (row.username # NULL /\ row.username = username)
    \/ (row.id # NULL /\ row.id = jobId)

usersAndJobs(username, jobId) ==
    {row \in ApplyJoinUsers : ApplyWhere(row, username, jobId)}

userExists(rows, username) == \E line \in rows : line.username = username

jobExists(rows, jobId) == \E line \in rows : line.id = jobId

\* A duplicate check that never finds the pair.
appliedAlready_Never(rows, username, jobId) == FALSE

appliedAlready(rows, username, jobId) ==
    \E line \in rows : line.username = username /\ line.id = jobId

\* The outcome of the checks: an error, or "pass" when the INSERT follows.
ApplyChecks(username, jobId) ==
    LET rows == usersAndJobs(username, jobId)
    IN IF ~userExists(rows, username)
         THEN NotFoundError(<<"user: ", username, " not found">>)
       ELSE IF ~jobExists(rows, jobId)
         THEN NotFoundError(<<"job ID: ", jobId, " not found">>)
       ELSE IF appliedAlready(rows, username, jobId)
         THEN ExpressError(<<username, " has already applied to job:", jobId>>, 409)
       ELSE [kind |-> "pass", status |-> 0]

ApplyRead(p, username, jobId) ==
    /\ pc[p] = "idle"
    /\ LET args == [username |-> username, jobId |-> jobId]
           r == ApplyChecks(username, jobId)
       IN IF r.kind = "pass"
            THEN /\ pc' = [pc EXCEPT ![p] = "apply_insert"]
                 /\ local' = [local EXCEPT ![p] = [op |-> "apply", f |-> args]]
                 /\ ev' = Event("apply", "call", args, Pending)
            ELSE /\ ev' = Event("apply", "call", args, r)
                 /\ UNCHANGED <<pc, local>>
    /\ UNCHANGED store

\* insert into applications (username, job_id) values ($1, $2) returning ...
ApplyInsertResult(row) ==
    IF ApplicationsKeyViolation(row) THEN StoreFault("23505")
    ELSE IF ApplicationsForeignKeyViolation(row) THEN StoreFault("23503")
    ELSE Ok([username |-> row.username, jobId |-> row.job_id])

ApplyInsert(p) ==
    /\ pc[p] = "apply_insert"
    /\ LET args == local[p].f
           row == AppRow(args.username, args.jobId)
           r == ApplyInsertResult(row)
       IN /\ applications' = IF r.kind = "ok" THEN applications (+) SetToBag({row})
                                              ELSE applications
          /\ ev' = Event("apply", "resume", args, r)
    /\ pc' = [pc EXCEPT ![p] = "idle"]
    /\ local' = [local EXCEPT ![p] = Idle]
    /\ UNCHANGED <<users, jobs, nextId>>

(***************************************************************************)
(* Job.create                                                              *)
(***************************************************************************)
\* The numeric column equity comes back from the driver as a decimal string;
\* the model keeps equity in hundredths, of which it uses 0, 50 and 100.
EquityText(equity) == IF equity = 0 THEN "0" ELSE IF equity = 50 THEN "0.5" ELSE "1"

\* id, title, salary, equity, company_handle AS "companyHandle"
JobProjection(j) ==
    [id |-> j.id, title |-> j.title, salary |-> j.salary,
     equity |-> EquityText(j.equity), companyHandle |-> j.company_handle]

JobRow(id, f) ==
    [id |-> id, title |-> f.title, salary |-> f.salary, equity |-> f.equity,
     company_handle |-> f.companyHandle]

JobCreate(f) ==
    /\ SomeIdle
    /\ nextId <= MaxJobs
    /\ jobs' = jobs \cup {JobRow(nextId, f)}
    /\ nextId' = nextId + 1
    /\ ev' = Event("create", "call", f, Ok(JobProjection(JobRow(nextId, f))))
    /\ UNCHANGED <<users, applications, pc, local>>

(***************************************************************************)
(* sqlForPartialUpdate (helpers/sql.js) and the UPDATE statement.          *)
(* The data of an update is the sequence of its [key, value] entries in    *)
(* iteration order, the keys distinct.                                     *)
(***************************************************************************)
ColumnOf(key, jsToSql) == IF key \in DOMAIN jsToSql THEN jsToSql[key] ELSE key

\* "col1 = $1, col2 = $2" and the values in the same order; fails on no data.
sqlForPartialUpdate(dataToUpdate, jsToSql) ==
    IF Len(dataToUpdate) = 0
      THEN [threw |-> TRUE, error |-> BadRequestError(<<"No data">>)]
      ELSE [threw |-> FALSE,
            setCols |-> [i \in 1..Len(dataToUpdate) |->
                           [col |-> ColumnOf(dataToUpdate[i].key, jsToSql), idx |-> i]],
            values |-> [i \in 1..Len(dataToUpdate) |-> dataToUpdate[i].value]]

\* The row after SET col = $idx, ...
Assigned(row, setCols, params) ==
    [c \in DOMAIN row |->
        IF \E i \in DOMAIN setCols : setCols[i].col = c
          THEN params[setCols[CHOOSE i \in DOMAIN setCols : setCols[i].col = c].idx]
          ELSE row[c]]

\* An UPDATE that matches every row.
UpdateHits_All(table, keyCol, key) == table

\* WHERE keyCol = $n: the rows the UPDATE changes.
UpdateHits(table, keyCol, key) == {r \in table : r[keyCol] = key}

\* UPDATE table SET setCols WHERE keyCol = $n RETURNING ...: the table after
\* the statement and the rows it returns (the changed rows).
Update(table, setCols, params, keyCol, keyIdx) ==
    LET hits == UpdateHits(table, keyCol, params[keyIdx])
        changed == {Assigned(r, setCols, params) : r \in hits}
    IN [table |-> (table \ hits) \cup changed, rows |-> changed]

(***************************************************************************)
(* User.update                                                             *)
(***************************************************************************)
UserJsToSql == [firstName |-> "first_name", lastName |-> "last_name", isAdmin |-> "is_admin"]

\* if (data.password) data.password = await bcrypt.hash(...)
HashPassword(data) ==
    [i \in DOMAIN data |->
        IF data[i].key = "password" /\ data[i].value # ""
          THEN [key |-> "password", value |-> BcryptHash(data[i].value)]
          ELSE data[i]]

UserUpdate(username, data) ==
    /\ SomeIdle
    /\ LET args == [username |-> username, data |-> data]
           q == sqlForPartialUpdate(HashPassword(data), UserJsToSql)
       IN IF q.threw
            THEN /\ ev' = Event("User.update", "call", args, q.error)
                 /\ UNCHANGED users
            ELSE LET usernameVarIdx == Len(q.values) + 1
                     result == Update(users, q.setCols, q.values \o <<username>>,
                                      "username", usernameVarIdx)
                 IN /\ users' = result.table
                    /\ ev' = Event("User.update", "call", args,
                                   IF result.rows = {}
                                     THEN NotFoundError(<<"No user: ", username>>)
                                     ELSE Ok(UserProjection(CHOOSE r \in result.rows : TRUE)))
    /\ UNCHANGED <<jobs, nextId, applications, pc, local>>

(***************************************************************************)
(* Job.update                                                              *)
(***************************************************************************)
JobJsToSql == [companyHandle |-> "company_handle"]

JobUpdate(id, data) ==
    /\ SomeIdle
    /\ LET args == [id |-> id, data |-> data]
           q == sqlForPartialUpdate(data, JobJsToSql)
       IN IF q.threw
            THEN /\ ev' = Event("Job.update", "call", args, q.error)
                 /\ UNCHANGED jobs
            ELSE LET result == Update(jobs, q.setCols, q.values \o <<id>>,
                                      "id", Len(q.values) + 1)
                 IN /\ jobs' = result.table
                    /\ ev' = Event("Job.update", "call", args,
                                   IF result.rows = {}
                                     THEN NotFoundError(<<"No job: ", id>>)
                                     ELSE Ok(JobProjection(CHOOSE r \in result.rows : TRUE)))
    /\ UNCHANGED <<users, nextId, applications, pc, local>>

(***************************************************************************)
(* Job.find: the predicate composer and the search.                        *)
(* A filter bag holds, per filter, whether it is given and its value.      *)
(* A title is the sequence of its characters.                              *)
(***************************************************************************)
Given(v) == [given |-> TRUE, v |-> v]
NotGiven(default) == [given |-> FALSE, v |-> default]

\* JS truthiness of the four filters: "" and 0 and false are falsy.
TitleTruthy(f) == f.title.given /\ f.title.v # <<>>

\* hasEquity = 0 when it is not given
HasEquityTruthy(f) == f.hasEquity.given /\ f.hasEquity.v

MinSalaryTruthy(f) == f.minSalary.given /\ f.minSalary.v # 0

CompanyHandleTruthy(f) == f.companyHandle.given /\ f.companyHandle.v # ""

\* sqlComponents and sqlInputs after the four ifs; i++ numbers the parameters
\* in the order the clauses are pushed.
FindTitle(f) ==
    IF TitleTruthy(f)
      THEN [sqlComponents |-> <<[clause |-> "lower(title) like lower($i)", idx |-> 1]>>,
            sqlInputs |-> <<<<"%">> \o f.title.v \o <<"%">>>>, i |-> 2]
      ELSE [sqlComponents |-> <<>>, sqlInputs |-> <<>>, i |-> 1]

FindEquity(f, q) ==
    IF HasEquityTruthy(f)
      THEN [q EXCEPT !.sqlComponents = Append(@, [clause |-> "equity > 0", idx |-> 0])]
      ELSE q

FindSalary(f, q) ==
    IF MinSalaryTruthy(f)
      THEN [sqlComponents |-> Append(q.sqlComponents, [clause |-> "salary >= $i", idx |-> q.i]),
            sqlInputs |-> Append(q.sqlInputs, f.minSalary.v), i |-> q.i + 1]
      ELSE q

FindCompany(f, q) ==
    IF CompanyHandleTruthy(f)
      THEN [sqlComponents |-> Append(q.sqlComponents, [clause |-> "company_handle = $i", idx |-> q.i]),
            sqlInputs |-> Append(q.sqlInputs, f.companyHandle.v), i |-> q.i + 1]
      ELSE q

FindQuery(f) == FindCompany(f, FindSalary(f, FindEquity(f, FindTitle(f))))

Lower(c) == IF c = "J" THEN "j" ELSE c

LowerText(t) == [i \in DOMAIN t |-> Lower(t[i])]

\* s LIKE pat: % matches any run of characters, _ any one character.
RECURSIVE Like(_, _)
Like(str, pat) ==
    IF pat = <<>> THEN str = <<>>
    ELSE IF Head(pat) = "%"
      THEN Like(str, Tail(pat)) \/ (str # <<>> /\ Like(Tail(str), pat))
      ELSE /\ str # <<>>
           /\ (Head(pat) = "_" \/ Head(pat) = Head(str))
           /\ Like(Tail(str), Tail(pat))

\* One clause of the WHERE, on one row; a comparison with NULL is not true.
ClauseHolds(c, sqlInputs, row) ==
    IF c.clause = "lower(title) like lower($i)"
      THEN Like(LowerText(row.title), LowerText(sqlInputs[c.idx]))
    ELSE IF c.clause = "equity > 0" THEN row.equity > 0
    ELSE IF c.clause = "salary >= $i"
      THEN row.salary # NULL /\ row.salary >= sqlInputs[c.idx]
    ELSE row.company_handle = sqlInputs[c.idx]

\* select ... from jobs where <sqlComponents joined by ' and '>: with no
\* component the text ends after "where", which the store rejects as a
\* syntax error (SQLSTATE 42601).
FindRows(q) ==
    {j \in jobs : \A k \in DOMAIN q.sqlComponents :
                     ClauseHolds(q.sqlComponents[k], q.sqlInputs, j)}

JobFind(f) ==
    /\ SomeIdle
    /\ LET q == FindQuery(f)
       IN IF q.sqlComponents = <<>>
            THEN ev' = Event("find", "call", f, StoreFault("42601"))
            ELSE \E rows \in Orderings(SetToBag({JobProjection(j) : j \in FindRows(q)})) :
                    ev' = Event("find", "call", f, Ok(rows))
    /\ UNCHANGED <<store, pc, local>>

(***************************************************************************)
(* Job.findAll: the allow-list of sort fields and the ORDER BY.            *)
(* An argument is given with a value or left out (then its default holds). *)
(***************************************************************************)
SortFields == {"id", "title", "salary", "equity", "companyHandle"}

\* sortBy = 'title', ascending = true
SortByOf(sortBy) == IF sortBy.given THEN sortBy.v ELSE "title"
AscendingOf(ascending) == IF ascending.given THEN ascending.v ELSE TRUE

\* (sortBy == "companyHandle") ? "company_handle" : sortBy
SortColumn(sortBy) == IF sortBy = "companyHandle" THEN "company_handle" ELSE sortBy

\* ascending ? "asc" : "desc"
SortDirection_Asc(ascending) == "asc"

SortDirection(ascending) == IF ascending THEN "asc" ELSE "desc"

JobColumns == {"id", "title", "salary", "equity", "company_handle"}

\* The store compares text character by character, in the order of the
\* characters' codes; these are the characters and the handles in use.
CharOrder == <<"1", "2", "J", "j">>
CharCode(c) == CHOOSE i \in 1..Len(CharOrder) : CharOrder[i] = c

HandleOrder == <<"c1", "c2">>
HandleCode(h) == CHOOSE i \in 1..Len(HandleOrder) : HandleOrder[i] = h

RECURSIVE TextBefore(_, _)
TextBefore(s, t) ==
    IF t = <<>> THEN FALSE
    ELSE IF s = <<>> THEN TRUE
    ELSE IF CharCode(Head(s)) # CharCode(Head(t))
           THEN CharCode(Head(s)) < CharCode(Head(t))
    ELSE TextBefore(Tail(s), Tail(t))

\* a sorts strictly before b in ORDER BY col ASC; a NULL sorts after every
\* value.
SortsBefore(a, b, col) ==
    IF col = "title" THEN TextBefore(a.title, b.title)
    ELSE IF col = "company_handle"
           THEN HandleCode(a.company_handle) < HandleCode(b.company_handle)
    ELSE IF a[col] = NULL THEN FALSE
    ELSE IF b[col] = NULL THEN TRUE
    ELSE a[col] < b[col]

\* The answers the store may give to SELECT ... FROM jobs ORDER BY col dir:
\* rows that compare equal come in any order.
OrderBy(col, dir) ==
    {rows \in Orderings(SetToBag(jobs)) :
        \A i, k \in DOMAIN rows :
            i < k => IF dir = "asc" THEN ~SortsBefore(rows[k], rows[i], col)
                                    ELSE ~SortsBefore(rows[i], rows[k], col)}

JobFindAll(sortBy, ascending) ==
    /\ SomeIdle
    /\ LET args == [sortBy |-> sortBy, ascending |-> ascending]
       IN IF SortByOf(sortBy) \notin SortFields
            THEN ev' = Event("Job.findAll", "call", args,
                             BadRequestError(<<"Unknown sorting system">>))
            ELSE LET col == SortColumn(SortByOf(sortBy))
                     dir == SortDirection(AscendingOf(ascending))
                 IN IF col \notin JobColumns
                      THEN ev' = Event("Job.findAll", "call", args, StoreFault("42703"))
                      ELSE \E rows \in OrderBy(col, dir) :
                              ev' = Event("Job.findAll", "call", args,
                                          Ok([i \in DOMAIN rows |-> JobProjection(rows[i])]))
    /\ UNCHANGED <<store, pc, local>>

(***************************************************************************)
(* Job.get and Job.remove.                                                 *)
(***************************************************************************)
JobGet(id) ==
    /\ SomeIdle
    /\ LET rows == {j \in jobs : j.id = id}
       IN ev' = Event("Job.get", "call", [id |-> id],
                      IF rows = {} THEN NotFoundError(<<"No company: ", id>>)
                                   ELSE Ok(JobProjection(CHOOSE j \in rows : TRUE)))
    /\ UNCHANGED <<store, pc, local>>

\* DELETE FROM jobs WHERE id = $1
DeleteHits_All(id) == jobs

DeleteHits(id) == {j \in jobs : j.id = id}

\* What the store does to the applications that name a deleted row depends
\* on the foreign key's ON DELETE rule, which the schema sets: it deletes
\* them as well, or it refuses the DELETE.
OnDeleteRules == {"cascade", "restrict"}

\* The applications that stay when those naming the key in column col go.
ApplicationsWithout(col, key) ==
    LET rest == {a \in BagToSet(applications) : a[col] # key}
    IN IF rest = {} THEN EmptyBag ELSE [a \in rest |-> CopiesIn(a, applications)]

JobRemove(id) ==
    /\ SomeIdle
    /\ LET rows == DeleteHits(id)
           args == [id |-> id]
       IN \E rule \in OnDeleteRules :
             IF rows # {} /\ ApplicationsWithout("job_id", id) # applications
                          /\ rule = "restrict"
               THEN /\ ev' = Event("Job.remove", "call", args, StoreFault("23503"))
                    /\ UNCHANGED <<jobs, applications>>
               ELSE /\ jobs' = jobs \ rows
                    /\ applications' = IF rows = {} THEN applications
                                       ELSE ApplicationsWithout("job_id", id)
                    /\ ev' = Event("Job.remove", "call", args,
                                   IF rows = {} THEN NotFoundError(<<"No job: ", id>>)
                                                ELSE Ok(NULL))
    /\ UNCHANGED <<users, nextId, pc, local>>

(***************************************************************************)
(* User.remove                                                             *)
(***************************************************************************)
UserRemoveOutcome(username, rule) ==
    LET rows == {r \in users : r.username = username}
    IN IF rows # {} /\ ApplicationsWithout("username", username) # applications
                    /\ rule = "restrict"
         THEN [users |-> users, applications |-> applications,
               res |-> StoreFault("23503")]
         ELSE [users |-> users \ rows,
               applications |-> IF rows = {} THEN applications
                                ELSE ApplicationsWithout("username", username),
               res |-> IF rows = {} THEN NotFoundError(<<"No user: ", username>>)
                                    ELSE Ok(NULL)]

(***************************************************************************)
(* The user routes with a :username parameter (routes/users.js). They run  *)
(* behind ensureLoggedIn, with the caller in res.locals.user.              *)
(***************************************************************************)
\* A property holder that is there (req.params) or is not (res.params: the
\* response object has no params).
Defined(obj) == [defined |-> TRUE, obj |-> obj]
Undefined == [defined |-> FALSE]

TypeError(msg) == [kind |-> "TypeError", status |-> 500, message |-> msg]

Pass == [kind |-> "pass", status |-> 0]

\* if (!res.locals.user.isAdmin && res.locals.user.username != <params>.username)
\*     throw new UnauthorizedError()
\* && does not evaluate its right side for an admin.
Guard(user, params) ==
    IF user.isAdmin THEN Pass
    ELSE IF ~params.defined
           THEN TypeError(<<"Cannot read properties of undefined (reading 'username')">>)
    ELSE IF user.username # params.obj.username
           THEN UnauthorizedError(<<"Unauthorized">>)
    ELSE Pass

\* The last step was a route handler: the caller, the parameters, the
\* repository method the handler has called ("none" if none) and what it
\* answers or hands to next().
RouteEvent(route, user, params, repo, res) ==
    [op |-> route, step |-> "call", args |-> [user |-> user, params |-> params],
     repo |-> repo, res |-> res]

RouteGet(user, username) ==
    /\ SomeIdle
    /\ LET route == "GET /users/:username"
           params == [username |-> username]
           g == Guard(user, Defined(params))
       IN IF g.kind # "pass"
            THEN ev' = RouteEvent(route, user, params, "none", g)
            ELSE \E rows \in Orderings(LeftJoinBag(username)) :
                    ev' = RouteEvent(route, user, params, "User.get",
                                     UserGetResult(username, rows))
    /\ UNCHANGED <<store, pc, local>>

\* The bodies are ones that userUpdateSchema accepts.
RoutePatch(user, username, body) ==
    /\ SomeIdle
    /\ LET route == "PATCH /users/:username"
           params == [username |-> username]
           g == Guard(user, Undefined)
           q == sqlForPartialUpdate(HashPassword(body), UserJsToSql)
           result == Update(users, q.setCols, q.values \o <<username>>,
                            "username", Len(q.values) + 1)
       IN IF g.kind # "pass"
            THEN /\ ev' = RouteEvent(route, user, params, "none", g)
                 /\ UNCHANGED users
            ELSE IF q.threw
            THEN /\ ev' = RouteEvent(route, user, params, "User.update", q.error)
                 /\ UNCHANGED users
            ELSE /\ users' = result.table
                 /\ ev' = RouteEvent(route, user, params, "User.update",
                                     IF result.rows = {}
                                       THEN NotFoundError(<<"No user: ", username>>)
                                       ELSE Ok(UserProjection(CHOOSE r \in result.rows : TRUE)))
    /\ UNCHANGED <<jobs, nextId, applications, pc, local>>

RouteDelete(user, username) ==
    /\ SomeIdle
    /\ LET route == "DELETE /users/:username"
           params == [username |-> username]
           g == Guard(user, Defined(params))
       IN IF g.kind # "pass"
            THEN /\ ev' = RouteEvent(route, user, params, "none", g)
                 /\ UNCHANGED <<users, applications>>
            ELSE \E rule \in OnDeleteRules :
                    LET o == UserRemoveOutcome(username, rule)
                    IN /\ users' = o.users
                       /\ applications' = o.applications
                       /\ ev' = RouteEvent(route, user, params, "User.remove",
                                           IF o.res.kind = "ok" THEN Ok(username) ELSE o.res)
    /\ UNCHANGED <<jobs, nextId, pc, local>>

\* The handler awaits User.apply, which continues in ApplyInsert.
RouteApply(p, user, username, jobId) ==
    /\ pc[p] = "idle"
    /\ LET route == "POST /users/:username/jobs/:jobId"
           params == [username |-> username, jobId |-> jobId]
           g == Guard(user, Defined(params))
           r == ApplyChecks(username, jobId)
       IN IF g.kind # "pass"
            THEN /\ ev' = RouteEvent(route, user, params, "none", g)
                 /\ UNCHANGED <<pc, local>>
            ELSE IF r.kind = "pass"
            THEN /\ pc' = [pc EXCEPT ![p] = "apply_insert"]
                 /\ local' = [local EXCEPT ![p] = [op |-> "apply", f |-> params]]
                 /\ ev' = RouteEvent(route, user, params, "User.apply", Pending)
            ELSE /\ ev' = RouteEvent(route, user, params, "User.apply", r)
                 /\ UNCHANGED <<pc, local>>
    /\ UNCHANGED store

(***************************************************************************)
(* The inputs the callers draw from.                                       *)
(***************************************************************************)
\* One set of fields per username: the application linkage does not read them.
LinkUserFields ==
    {[username |-> u, password |-> "pw1", firstName |-> "f1", lastName |-> "l1",
      email |-> "e1", isAdmin |-> FALSE] : u \in Usernames}

LinkJobFields ==
    {[title |-> <<"j", "1">>, salary |-> 1, equity |-> 0, companyHandle |-> "c1"]}

(***************************************************************************)
(* The specifications.                                                     *)
(***************************************************************************)
Init ==
    /\ users = {}
    /\ jobs = {}
    /\ nextId = 1
    /\ applications = EmptyBag
    /\ pc = [p \in Procs |-> "idle"]
    /\ local = [p \in Procs |-> Idle]
    /\ ev = NoEvent

\* The application linkage: users and jobs come to exist, callers apply
\* concurrently and read the users back.
Next ==
    \/ \E p \in Procs, f \in LinkUserFields : RegisterCheck(p, f)
    \/ \E p \in Procs : RegisterInsert(p)
    \/ \E f \in LinkJobFields : JobCreate(f)
    \/ \E p \in Procs, u \in Usernames, j \in JobIds : ApplyRead(p, u, j)
    \/ \E p \in Procs : ApplyInsert(p)
    \/ \E u \in Usernames : UserGet(u)
    \/ UserFindAll

Spec == Init /\ [][Next]_vars

\* Registration and authentication: callers register concurrently, with
\* fields that differ between registrations, and log in.
Passwords == {"pw1", "pw2"}

RegisterFields ==
    {[username |-> u, password |-> pw, firstName |-> fn, lastName |-> "l1",
      email |-> "e1", isAdmin |-> FALSE] :
        u \in Usernames, pw \in Passwords, fn \in {"f1", "f2"}}

NextUsers ==
    \/ \E p \in Procs, f \in RegisterFields : RegisterCheck(p, f)
    \/ \E p \in Procs : RegisterInsert(p)
    \/ \E u \in Usernames, pw \in Passwords : UserAuthenticate(u, pw)

SpecUsers == Init /\ [][NextUsers]_vars

\* Partial updates: one caller registers users and creates jobs; users and
\* jobs are updated by keys that exist and keys that do not.
UserUpdateData ==
    {<<>>,
     <<[key |-> "firstName", value |-> "f2"]>>,
     <<[key |-> "password", value |-> "pw2"], [key |-> "isAdmin", value |-> TRUE]>>}

JobUpdateData ==
    {<<>>,
     <<[key |-> "salary", value |-> 50], [key |-> "companyHandle", value |-> "c2"]>>}

NextUpdate ==
    \/ \E f \in LinkUserFields : RegisterCheck("p1", f)
    \/ RegisterInsert("p1")
    \/ \E f \in LinkJobFields : JobCreate(f)
    \/ \E u \in Usernames, d \in UserUpdateData : UserUpdate(u, d)
    \/ \E j \in JobIds, d \in JobUpdateData : JobUpdate(j, d)

SpecUpdate == Init /\ [][NextUpdate]_vars

\* The job search: jobs of different titles, salaries, equities and
\* companies are created and searched with every filter bag. The six kinds
\* of job show every pair of values of every two fields.
JobInput(t, sal, e, c) == [title |-> t, salary |-> sal, equity |-> e, companyHandle |-> c]

JobFields ==
    {JobInput(<<"j", "1">>, NULL, 0, "c1"),
     JobInput(<<"j", "1">>, 20, 50, "c2"),
     JobInput(<<"J", "2">>, NULL, 50, "c2"),
     JobInput(<<"J", "2">>, 20, 0, "c2"),
     JobInput(<<"J", "2">>, 20, 50, "c1"),
     JobInput(<<"J", "2">>, 20, 50, "c2")}

FilterBags ==
    {[title |-> t, minSalary |-> m, hasEquity |-> h, companyHandle |-> c] :
        t \in {NotGiven(<<>>), Given(<<>>), Given(<<"j">>), Given(<<"2">>)},
        m \in {NotGiven(0), Given(0), Given(20)},
        h \in {NotGiven(FALSE), Given(FALSE), Given(TRUE)},
        c \in {NotGiven(""), Given("c1")}}

NextJobs ==
    \/ \E f \in JobFields : JobCreate(f)
    \/ \E f \in FilterBags : JobFind(f)

SpecJobs == Init /\ [][NextJobs]_vars

\* The listing: the jobs of the search are created and listed by every sort
\* field, by a name that is no sort field, and in both directions.
SortByArgs ==
    {NotGiven("title"), Given("id"), Given("title"), Given("salary"), Given("equity"),
     Given("companyHandle"), Given("company_handle")}

AscendingArgs == {NotGiven(TRUE), Given(TRUE), Given(FALSE)}

NextFindAll ==
    \/ \E f \in JobFields : JobCreate(f)
    \/ \E s \in SortByArgs, a \in AscendingArgs : JobFindAll(s, a)

SpecFindAll == Init /\ [][NextFindAll]_vars

\* The removal: the jobs of the search are created, read, updated and removed.
NextRemove ==
    \/ \E f \in JobFields : JobCreate(f)
    \/ \E j \in JobIds : JobGet(j)
    \/ \E j \in JobIds, d \in JobUpdateData : JobUpdate(j, d)
    \/ \E j \in JobIds : JobRemove(j)

SpecRemove == Init /\ [][NextRemove]_vars

\* The user routes: one caller at a time registers users, creates jobs and
\* sends requests as any logged-in caller, admin or not, for any username.
LoggedIn == {[username |-> u, isAdmin |-> a] : u \in Usernames, a \in BOOLEAN}

PatchBodies == {<<[key |-> "firstName", value |-> "f2"]>>}

NextRoutes ==
    \/ \E f \in LinkUserFields : RegisterCheck("p1", f)
    \/ RegisterInsert("p1")
    \/ \E f \in LinkJobFields : JobCreate(f)
    \/ \E c \in LoggedIn, u \in Usernames : RouteGet(c, u)
    \/ \E c \in LoggedIn, u \in Usernames, b \in PatchBodies : RoutePatch(c, u, b)
    \/ \E c \in LoggedIn, u \in Usernames : RouteDelete(c, u)
    \/ \E c \in LoggedIn, u \in Usernames, j \in JobIds : RouteApply("p1", c, u, j)
    \/ ApplyInsert("p1")

SpecRoutes == Init /\ [][NextRoutes]_vars

(***************************************************************************)
(* Properties.                                                             *)
(***************************************************************************)
\* The step just taken entered apply(username, jobId) (its joined read).
ApplyCalled == ev'.op = "apply" /\ ev'.step = "call"

\* The step just taken was the INSERT of an apply.
ApplyResumed == ev'.op = "apply" /\ ev'.step = "resume"

Conflict(username, jobId) ==
    ExpressError(<<username, " has already applied to job:", jobId>>, 409)

\* C1: in every reachable state, whatever the interleaving of apply calls,
\* the applications relation holds at most one row per (username, job id).
C1_AtMostOneApplication ==
    \A a \in BagToSet(applications) : CopiesIn(a, applications) = 1

\* Two identical applies raced: the second INSERT was attempted on a pair
\* that was already there.
C1_Witness ==
    /\ ev.op = "apply" /\ ev.step = "resume" /\ ev.res.kind = "StoreFault"
    /\ Applied(ev.args.username, ev.args.jobId)

\* C2: an apply whose INSERT meets the pair already inserted (by a racing
\* identical call) ends with the Conflict error of a sequential duplicate.
C2_RaceEndsInConflict ==
    (ev.op = "apply" /\ ev.step = "resume" /\ ev.res.kind # "ok")
        => ev.res = Conflict(ev.args.username, ev.args.jobId)

\* C3: for an existing user and job, an apply called when the pair is not
\* applied passes its checks and its INSERT succeeds, adding exactly that
\* pair; an apply called when the pair is already applied fails with the
\* 409 Conflict error, which is no NotFound and no BadRequest, and inserts
\* nothing.
C3_SequentialDuplicateStep ==
    LET u == ev'.args.username
        j == ev'.args.jobId
    IN /\ (ApplyCalled /\ UserExists(u) /\ JobExists(j) /\ ~Applied(u, j))
            => ev'.res = Pending /\ UNCHANGED store
       /\ (ApplyResumed /\ ~Applied(u, j))
            => /\ ev'.res = Ok([username |-> u, jobId |-> j])
               /\ applications' = applications (+) SetToBag({AppRow(u, j)})
       /\ (ApplyCalled /\ Applied(u, j))
            => /\ ev'.res = Conflict(u, j)
               /\ ev'.res.status = 409
               /\ ev'.res.kind \notin {"NotFoundError", "BadRequestError"}
               /\ UNCHANGED store

C3_SequentialDuplicate == [][C3_SequentialDuplicateStep]_vars

\* The second of two applies in sequence has just failed with Conflict.
C3_Witness ==
    /\ ev.op = "apply" /\ ev.step = "call" /\ ev.res.status = 409
    /\ Applied(ev.args.username, ev.args.jobId)

\* C4: apply with a username that is no user fails with NotFound naming the
\* user; with an existing username and a job id that is no job it fails
\* with NotFound naming the job; in both cases nothing is inserted.
C4_NotFoundStep ==
    LET u == ev'.args.username
        j == ev'.args.jobId
    IN /\ (ApplyCalled /\ ~UserExists(u))
            => /\ ev'.res = NotFoundError(<<"user: ", u, " not found">>)
               /\ UNCHANGED store
       /\ (ApplyCalled /\ UserExists(u) /\ ~JobExists(j))
            => /\ ev'.res = NotFoundError(<<"job ID: ", j, " not found">>)
               /\ UNCHANGED store

C4_NotFound == [][C4_NotFoundStep]_vars

\* An apply to a missing job has just failed for a user who has applied to
\* another job.
C4_Witness ==
    /\ ev.op = "apply" /\ ev.res.kind = "NotFoundError"
    /\ UserExists(ev.args.username) /\ ~JobExists(ev.args.jobId)
    /\ \E j \in JobIds : Applied(ev.args.username, j)

\* The job ids of a returned user object: none when it has no jobs field.
HasJobs(obj) == "jobs" \in DOMAIN obj

ListsJob(obj, jobId) == HasJobs(obj) /\ \E i \in DOMAIN obj.jobs : obj.jobs[i] = jobId

\* C5: once an apply(username, jobId) has succeeded, get(username) and
\* findAll() return for that user a job-id list that contains jobId.
C5_ApplyIsReflected ==
    /\ (ev.op = "get" /\ ev.res.kind = "ok")
          => \A j \in JobIds : Applied(ev.args.username, j) => ListsJob(ev.res.val, j)
    /\ ev.op = "findAll"
          => /\ ev.res.kind = "ok"
             /\ \A a \in BagToSet(applications) :
                   \E i \in DOMAIN ev.res.val :
                      /\ ev.res.val[i].username = a.username
                      /\ ListsJob(ev.res.val[i], a.job_id)

\* C6: findAll returns exactly one entry per user, each with the sequence of
\* the user's applied job ids (empty for a user without applications), the
\* entries ordered by username ascending.
C6_FindAllGroups ==
    ev.op = "findAll"
      => /\ ev.res.kind = "ok"
         /\ Len(ev.res.val) = Cardinality(users)
         /\ \A i \in DOMAIN ev.res.val, k \in DOMAIN ev.res.val :
               i < k => ev.res.val[i].username < ev.res.val[k].username
         /\ \A i \in DOMAIN ev.res.val :
               LET e == ev.res.val[i]
               IN /\ UserExists(e.username)
                  /\ HasJobs(e)
                  /\ \A j \in JobIds : Applied(e.username, j) <=> ListsJob(e, j)
                  /\ Len(e.jobs) = Cardinality({j \in JobIds : Applied(e.username, j)})

\* The step just taken entered register(fields) (its duplicate pre-check).
RegisterCalled == ev'.op = "register" /\ ev'.step = "call"

\* C7: a register called when the username is already registered fails with
\* BadRequest, and afterwards users holds exactly one row for the username,
\* the row that was there before.
C7_DuplicateRegisterStep ==
    LET u == ev'.args.username
    IN (RegisterCalled /\ UserExists(u))
          => /\ ev'.res = BadRequestError(<<"Duplicate username: ", u>>)
             /\ users' = users
             /\ Cardinality({r \in users' : r.username = u}) = 1

C7_DuplicateRegister == [][C7_DuplicateRegisterStep]_vars

\* A second register of a username, with other fields than the stored row,
\* has just been rejected.
C7_Witness ==
    /\ ev.op = "register" /\ ev.res.kind = "BadRequestError"
    /\ \E r \in users : /\ r.username = ev.args.username
                        /\ r.first_name # ev.args.firstName
                        /\ r.password # BcryptHash(ev.args.password)

\* C8: authenticate fails with one and the same Unauthorized error whether
\* the username is absent or the password does not match; on a match it
\* returns the user's fields without the password.
C8_Authenticate ==
    ev.op = "authenticate" =>
       LET rows == {r \in users : r.username = ev.args.username}
           matching == {r \in rows : r.password = BcryptHash(ev.args.password)}
       IN IF matching = {}
            THEN ev.res = UnauthorizedError(<<"Invalid username/password">>)
            ELSE /\ ev.res.kind = "ok"
                 /\ DOMAIN ev.res.val = {"username", "firstName", "lastName", "email", "isAdmin"}
                 /\ \E r \in matching :
                       /\ ev.res.val.username = r.username
                       /\ ev.res.val.firstName = r.first_name
                       /\ ev.res.val.lastName = r.last_name
                       /\ ev.res.val.email = r.email
                       /\ ev.res.val.isAdmin = r.is_admin

\* A login with the wrong password for a registered user has just failed.
C8_Witness ==
    /\ ev.op = "authenticate" /\ ev.res.kind = "UnauthorizedError"
    /\ UserExists(ev.args.username)

\* The step just taken was an update of a user or of a job with some data.
UserUpdated == ev'.op = "User.update" /\ Len(ev'.args.data) > 0

JobUpdated == ev'.op = "Job.update" /\ Len(ev'.args.data) > 0

\* C9: User.update of a username that is not in the store, and Job.update
\* of an id that is not in the store, with non-empty data, fail with
\* NotFound and leave users, jobs and applications as they were.
C9_UpdateMissingKeyStep ==
    /\ (UserUpdated /\ ~UserExists(ev'.args.username))
          => /\ ev'.res = NotFoundError(<<"No user: ", ev'.args.username>>)
             /\ UNCHANGED store
    /\ (JobUpdated /\ ~JobExists(ev'.args.id))
          => /\ ev'.res = NotFoundError(<<"No job: ", ev'.args.id>>)
             /\ UNCHANGED store

C9_UpdateMissingKey == [][C9_UpdateMissingKeyStep]_vars

\* An update of a missing job has just failed while the store holds a user
\* and another job.
C9_Witness ==
    /\ ev.op = "Job.update" /\ ev.res.kind = "NotFoundError"
    /\ Len(ev.args.data) > 0
    /\ users # {} /\ jobs # {}

\* No filter of the bag is supplied: no title, no minSalary, hasEquity false
\* or absent, no companyHandle.
NoFilterSupplied(f) ==
    /\ ~f.title.given
    /\ ~f.minSalary.given
    /\ (~f.hasEquity.given \/ ~f.hasEquity.v)
    /\ ~f.companyHandle.given

\* C10: find with no filter supplied runs a valid, universally true
\* predicate and returns all jobs.
C10_FindWithoutFilters ==
    (ev.op = "find" /\ NoFilterSupplied(ev.args))
       => /\ ev.res.kind = "ok"
          /\ {ev.res.val[i] : i \in DOMAIN ev.res.val} = {JobProjection(j) : j \in jobs}

\* text occurs in title as a run of consecutive characters, letters compared
\* without regard to case.
ContainsIgnoringCase(title, text) ==
    \E k \in 0..(Len(title) - Len(text)) :
        \A i \in 1..Len(text) : Lower(title[k + i]) = Lower(text[i])

\* The job satisfies every filter that the bag supplies.
SatisfiesFilters(j, f) ==
    /\ f.title.given => ContainsIgnoringCase(j.title, f.title.v)
    /\ f.minSalary.given => (j.salary # NULL /\ j.salary >= f.minSalary.v)
    /\ (f.hasEquity.given /\ f.hasEquity.v) => j.equity > 0
    /\ f.companyHandle.given => j.company_handle = f.companyHandle.v

\* C11: for every filter bag, find returns exactly the jobs that satisfy all
\* the supplied filters together, each once: none left out, no other one.
C11_FindReturnsMatches ==
    ev.op = "find"
       => /\ ev.res.kind = "ok"
          /\ {ev.res.val[i] : i \in DOMAIN ev.res.val}
                = {JobProjection(j) : j \in {k \in jobs : SatisfiesFilters(k, ev.args)}}
          /\ Len(ev.res.val) = Cardinality({k \in jobs : SatisfiesFilters(k, ev.args)})

\* The stored job that a returned row shows.
JobOfRow(row) == CHOOSE j \in jobs : j.id = row.id

\* The value of the sort field of a stored job, as a number that grows with
\* the field; NULL where the job has none.
FieldRank(j, sortBy) ==
    IF sortBy = "id" THEN j.id
    ELSE IF sortBy = "salary" THEN j.salary
    ELSE IF sortBy = "equity" THEN j.equity
    ELSE IF sortBy = "companyHandle" THEN HandleCode(j.company_handle)
    ELSE Cardinality({k \in jobs : TextBefore(k.title, j.title)})

\* The rows run by the field in the given direction; a job without a value
\* of the field may stand anywhere.
RunsBy(rows, sortBy, ascending) ==
    \A i, k \in DOMAIN rows :
        LET a == FieldRank(JobOfRow(rows[i]), sortBy)
            b == FieldRank(JobOfRow(rows[k]), sortBy)
        IN (i < k /\ a # NULL /\ b # NULL) => IF ascending THEN a <= b ELSE a >= b

\* C12: findAll with a sortBy outside the five sort fields fails with
\* BadRequestError and no statement has reached the store; with an allowed
\* sortBy the answer holds every job once, ordered by that field in the
\* requested direction; without arguments the order is by title, ascending.
C12_FindAllSorted ==
    ev.op = "Job.findAll"
       => LET sortBy == IF ev.args.sortBy.given THEN ev.args.sortBy.v ELSE "title"
              ascending == IF ev.args.ascending.given THEN ev.args.ascending.v ELSE TRUE
          IN IF sortBy \notin {"id", "title", "salary", "equity", "companyHandle"}
               THEN ev.res.kind = "BadRequestError" /\ ev.res.status = 400
               ELSE /\ ev.res.kind = "ok"
                    /\ Len(ev.res.val) = Cardinality(jobs)
                    /\ {ev.res.val[i] : i \in DOMAIN ev.res.val}
                          = {JobProjection(j) : j \in jobs}
                    /\ RunsBy(ev.res.val, sortBy, ascending)

\* Two jobs of different equities were listed by equity, the larger first.
C12_Witness ==
    /\ ev.op = "Job.findAll"
    /\ ev.args.sortBy = Given("equity")
    /\ ev.args.ascending = Given(FALSE)
    /\ ev.res.kind = "ok"
    /\ Len(ev.res.val) = 2
    /\ ev.res.val[1].equity = "0.5"
    /\ ev.res.val[2].equity = "0"

UsernameRoutes ==
    {"GET /users/:username", "PATCH /users/:username", "DELETE /users/:username",
     "POST /users/:username/jobs/:jobId"}

\* C13: on each user route with a :username parameter, a logged-in caller
\* reaches the repository method exactly when the caller is an admin or the
\* caller's username is the parameter; every other caller gets an
\* Unauthorized error and the repository method is not called.
C13_OwnOrAdmin ==
    ev.op \in UsernameRoutes
       => LET user == ev.args.user
              allowed == user.isAdmin \/ user.username = ev.args.params.username
          IN /\ (ev.repo # "none") <=> allowed
             /\ ~allowed => ev.res.kind = "UnauthorizedError" /\ ev.res.status = 401

\* The step just taken was the named method of Job called with this id.
JobCalled(op, id) == ev'.op = op /\ ev'.args.id = id

\* C14: remove(id) of a stored id deletes that job and no other row, and the
\* id never comes back, so every later get(id), update(id, data) and
\* remove(id) fails with NotFoundError; remove(id) and get(id) of an id that
\* is not stored fail with NotFoundError and leave the store as it was.
C14_RemoveStep ==
    \A id \in JobIds :
        /\ (JobCalled("Job.remove", id) /\ JobExists(id))
              => /\ ev'.res.kind = "ok"
                 /\ jobs' = {j \in jobs : j.id # id}
                 /\ UNCHANGED <<users, applications>>
        /\ (id < nextId /\ ~JobExists(id)) => ~JobExists(id)'
        /\ (~JobExists(id) /\ (JobCalled("Job.remove", id) \/ JobCalled("Job.get", id)
                                  \/ (JobCalled("Job.update", id) /\ JobUpdated)))
              => /\ ev'.res.kind = "NotFoundError" /\ ev'.res.status = 404
                 /\ UNCHANGED store

SuppliedFilters(f) ==
    {n \in {"title", "minSalary", "companyHandle"} : f[n].given}
       \cup (IF f.hasEquity.given /\ f.hasEquity.v THEN {"hasEquity"} ELSE {})

\* The filter that a clause of the predicate tests.
FilterOfClause(c) ==
    IF c.clause = "lower(title) like lower($i)" THEN "title"
    ELSE IF c.clause = "equity > 0" THEN "hasEquity"
    ELSE IF c.clause = "salary >= $i" THEN "minSalary"
    ELSE "companyHandle"

\* The parameter that the clause of a filter is to be given.
ValueOfFilter(f, n) == IF n = "title" THEN <<"%">> \o f.title.v \o <<"%">> ELSE f[n].v

\* C15: the predicate of find has exactly one clause per supplied filter
\* (hasEquity only when true, and without a parameter), the parameter indices
\* of the clauses are 1, 2, ... without a gap, and the i-th parameter is the
\* value of the clause that uses index i.
C15_OneClausePerFilter ==
    ev.op = "find"
       => LET f == ev.args
              q == FindQuery(f)
              withParam == {k \in DOMAIN q.sqlComponents :
                               FilterOfClause(q.sqlComponents[k]) # "hasEquity"}
          IN /\ Len(q.sqlComponents) = Cardinality(SuppliedFilters(f))
             /\ {FilterOfClause(q.sqlComponents[k]) : k \in DOMAIN q.sqlComponents}
                   = SuppliedFilters(f)
             /\ Len(q.sqlInputs) = Cardinality(withParam)
             /\ {q.sqlComponents[k].idx : k \in withParam} = 1..Len(q.sqlInputs)
             /\ \A k \in withParam :
                   q.sqlInputs[q.sqlComponents[k].idx]
                      = ValueOfFilter(f, FilterOfClause(q.sqlComponents[k]))

\* C16: after the INSERT of a register, users holds exactly one row of the
\* username, and a register whose INSERT meets the username already inserted
\* (by a racing call that passed the pre-check as well) ends with
\* BadRequestError, not with an error of the store.
C16_RaceEndsInBadRequest ==
    (ev.op = "register" /\ ev.step = "resume")
        => /\ Cardinality({r \in users : r.username = ev.args.username}) = 1
           /\ ev.res.kind # "ok"
                 => ev.res.kind = "BadRequestError" /\ ev.res.status = 400

====
